---- MODULE Spec2Model ----
(***************************************************************************)
(* IceVision backend (src/main.py): employee directory, fridge sessions,   *)
(* the consumption reconciliation done by session_close, and the           *)
(* consumption ledger.  The database tables are the state; every endpoint  *)
(* is an action.                                                           *)
(***************************************************************************)
EXTENDS Integers, Sequences, FiniteSets, TLC

\* ------------------------------------------------------------------ bounds
\* Rows the fridge_sessions table may hold.
MaxSessions == 2
\* Rows the consumption_events table may hold.
MaxLedger == 2
\* Largest value of the wall clock read by now().
MaxClock == 1
\* Rows the recognition_logs table may hold.
MaxLogs == 1
\* Rows the employees table may hold.
MaxEmployees == 2
\* session_close requests that may be in flight together (SpecConc).
MaxRequests == 2

\* ------------------------------------------------------------- value sets
\* Python's None in an Optional[int] field or a nullable Integer/DateTime column.
None == -1
\* An Optional[str] parameter that the caller left out.
NoCode == "<none>"
\* employee_code values of the directory; callers may also send "" or leave
\* an optional code out.
Codes == {"e0", "e1"}
\* Product labels and quantities the vision pipeline reports.
Labels == {"milk", "soda"}
Quantities == {-1, 0, 2}
Reqs == 1..MaxRequests

\* Python truthiness of an Optional[int] (None and 0 are falsy) ...
TruthyInt(x) == x # None /\ x # 0
\* ... and of an Optional[str] (None and "" are falsy).
TruthyStr(s) == s # NoCode /\ s # ""

VARIABLES employees, sessions, vision_items, ledger, recognition_logs,
          clock, response, req

vars == <<employees, sessions, vision_items, ledger, recognition_logs,
          clock, response, req>>

db == <<employees, sessions, vision_items, ledger, recognition_logs>>

\* ----------------------------------------------------- vision_items table
VisionRow(c, l, q) == [capture_id |-> c, label |-> l, quantity |-> q]

\* Contents the vision pipeline may have left in vision_items.  No endpoint
\* writes the table.  Callers use capture 1 as "before" and capture 2 as "after".
VisionTables ==
    { \* the spec's example: milk 5 -> 3, soda 2 -> gone
      << VisionRow(1, "milk", 5), VisionRow(1, "soda", 2), VisionRow(2, "milk", 3) >>,
      \* the after capture has no rows
      << VisionRow(1, "milk", 5) >>,
      \* zero and negative quantities: milk 0 -> -1, soda 2 -> -1
      << VisionRow(1, "milk", 0), VisionRow(1, "soda", 2),
         VisionRow(2, "milk", -1), VisionRow(2, "soda", -1) >> }

\* Every snapshot of at most two rows filed under capture id c; a label may
\* be reported twice.
SnapshotRows(c) ==
    LET row == {VisionRow(c, l, q) : l \in Labels, q \in Quantities}
    IN {<<>>} \cup {<<r>> : r \in row} \cup {<<r1, r2>> : r1 \in row, r2 \in row}

\* Every before/after pair of snapshots, with one row filed under capture id 0.
AllVisionTables ==
    {b \o a \o << VisionRow(0, "milk", 2) >> : b \in SnapshotRows(1), a \in SnapshotRows(2)}

\* db.query(VisionItem).filter(VisionItem.capture_id == cid).all(): the
\* rows of the capture, in table order (the tables of Init vary the order).
ItemsOfCapture(cid) == SelectSeq(vision_items, LAMBDA r : r.capture_id = cid)

\* ------------------------------------------------------------ Python dict
\* A dict is a sequence of <<key, value>> pairs with distinct keys, in
\* insertion order.
DictHas(d, k) == \E i \in 1..Len(d) : d[i][1] = k

DictPut(d, k, v) ==
    IF DictHas(d, k)
    THEN [i \in 1..Len(d) |-> IF d[i][1] = k THEN <<k, v>> ELSE d[i]]
    ELSE Append(d, <<k, v>>)

\* d.get(k, default)
DictGet(d, k, default) ==
    IF DictHas(d, k) THEN d[CHOOSE i \in 1..Len(d) : d[i][1] = k][2] ELSE default

\* {i.label: i.quantity for i in rows}
RECURSIVE LabelQuantities(_)
LabelQuantities(rows) ==
    IF rows = <<>> THEN <<>>
    ELSE LET n == Len(rows)
         IN DictPut(LabelQuantities(SubSeq(rows, 1, n - 1)), rows[n].label, rows[n].quantity)

\* ----------------------------------------------------------- reconciliation
\* delta = qty_before - after_items.get(label, 0), for the i-th before label
Delta(before_items, after_items, i) ==
    before_items[i][2] - DictGet(after_items, before_items[i][1], 0)

\* Variant: an entry is kept when delta >= 0.
ReconcileKeepsZero(before_items, after_items) ==
    LET all == [i \in 1..Len(before_items) |->
                   [label |-> before_items[i][1],
                    quantity |-> Delta(before_items, after_items, i)]]
    IN SelectSeq(all, LAMBDA c : c.quantity >= 0)

\* Variant: a label seen only in the after snapshot is reported too.
ReconcileWithRestock(before_items, after_items) ==
    LET all == [i \in 1..Len(before_items) |->
                   [label |-> before_items[i][1],
                    quantity |-> Delta(before_items, after_items, i)]]
        added == [i \in 1..Len(after_items) |->
                   [label |-> after_items[i][1],
                    quantity |-> IF DictHas(before_items, after_items[i][1])
                                 THEN 0 ELSE after_items[i][2]]]
    IN SelectSeq(all \o added, LAMBDA c : c.quantity > 0)

\* The loop over before_items.items(): the consumed list.
Reconcile(before_items, after_items) ==
    LET all == [i \in 1..Len(before_items) |->
                   [label |-> before_items[i][1],
                    quantity |-> Delta(before_items, after_items, i)]]
    IN SelectSeq(all, LAMBDA c : c.quantity > 0)

\* Variant: one capture id is enough to reconcile.
EitherCapture(payload) ==
    TruthyInt(payload.capture_before_id) \/ TruthyInt(payload.capture_after_id)

\* if payload.capture_before_id and payload.capture_after_id:
BothCaptures(payload) ==
    TruthyInt(payload.capture_before_id) /\ TruthyInt(payload.capture_after_id)

\* consumed, as session_close builds it for a payload
Consumed(payload) ==
    IF BothCaptures(payload)
    THEN Reconcile(LabelQuantities(ItemsOfCapture(payload.capture_before_id)),
                   LabelQuantities(ItemsOfCapture(payload.capture_after_id)))
    ELSE <<>>

\* Variant: the employee is derived anew, from the session opened last.
NewEventsOfLastOpener(s, consumed, t) ==
    [i \in 1..Len(consumed) |->
        [id |-> Len(ledger) + i,
         session_id |-> s.id,
         employee_id |-> sessions[Len(sessions)].employee_id,
         product_label |-> consumed[i].label,
         quantity |-> consumed[i].quantity,
         created_at |-> t]]

\* Variant: the events are queued last entry first.
NewEventsReversed(s, consumed, t) ==
    [i \in 1..Len(consumed) |->
        [id |-> Len(ledger) + i,
         session_id |-> s.id,
         employee_id |-> s.employee_id,
         product_label |-> consumed[Len(consumed) + 1 - i].label,
         quantity |-> consumed[Len(consumed) + 1 - i].quantity,
         created_at |-> t]]

\* The ConsumptionEvent rows db.add(ev) queues for session s, one per consumed
\* entry; ids continue the table's autoincrement.
NewEvents(s, consumed, t) ==
    [i \in 1..Len(consumed) |->
        [id |-> Len(ledger) + i,
         session_id |-> s.id,
         employee_id |-> s.employee_id,
         product_label |-> consumed[i].label,
         quantity |-> consumed[i].quantity,
         created_at |-> t]]

\* Variant: the status assignment is left out.
ClosedSessionKeepsStatus(s, payload, t) ==
    [s EXCEPT !.closed_at = t,
              !.capture_before_id = payload.capture_before_id,
              !.capture_after_id = payload.capture_after_id]

\* session.closed_at = now(); capture ids from the payload; status = "closed"
ClosedSession(s, payload, t) ==
    [s EXCEPT !.closed_at = t,
              !.capture_before_id = payload.capture_before_id,
              !.capture_after_id = payload.capture_after_id,
              !.status = "closed"]

\* The UPDATE db.commit() flushes for a session object: it sets the columns
\* whose value on the object differs from the value the object was loaded
\* with, and leaves the other columns of the row as they are.
Flushed(row, loaded, session) ==
    [c \in DOMAIN row |-> IF session[c] # loaded[c] THEN session[c] ELSE row[c]]

\* Variant: a close first deletes the events its session already has.
ReplaceSessionEvents(events) ==
    SelectSeq(ledger, LAMBDA e : \A k \in 1..Len(events) : events[k].session_id # e.session_id)
        \o events

\* The INSERTs db.commit() flushes: the queued events go after the rows the
\* table holds.
AppendEvents(events) == ledger \o events

\* -------------------------------------------------------------- responses
Response(op, status, id, consumed, listed) ==
    [op |-> op, status |-> status, id |-> id, consumed |-> consumed, sessions |-> listed]

\* SessionCloseRequest bodies, for a session id in use or the next unused
\* one: every combination of absent, zero and real capture ids ...
ClosePayloads ==
    [session_id : 1..(Len(sessions) + 1), capture_before_id : {None, 0, 1},
     capture_after_id : {None, 0, 2}]

\* ... and those whose capture ids are absent or real.
PlainClosePayloads ==
    {p \in ClosePayloads : p.capture_before_id # 0 /\ p.capture_after_id # 0}

\* A fridge_sessions row as session_start inserts it (device_id and notes
\* are left out: no endpoint computes with them).
OpenSession(id, employee_id, t) ==
    [id |-> id, employee_id |-> employee_id, opened_at |-> t, closed_at |-> None,
     capture_before_id |-> None, capture_after_id |-> None, status |-> "open"]

\* A session_close request not yet received.
IdleReq ==
    [pc |-> "idle",
     payload |-> [session_id |-> None, capture_before_id |-> None,
                  capture_after_id |-> None],
     session |-> OpenSession(None, None, None),
     closed_at |-> None,
     status |-> 0,
     consumed |-> <<>>]

\* db.query(Employee).filter(Employee.employee_code == code).first()
EmployeeByCode(code) ==
    IF \E i \in 1..Len(employees) : employees[i].employee_code = code
    THEN employees[CHOOSE i \in 1..Len(employees) : employees[i].employee_code = code]
    ELSE [id |-> None, employee_code |-> NoCode, is_active |-> FALSE]

\* ------------------------------------------------------------------- Init
\* The tables as the service finds them: the directory holds one employee,
\* "e0", whose is_active flag was cleared by hand (no endpoint writes the
\* flag after creation); there is no session, event or log yet.
Init ==
    /\ employees = << [id |-> 1, employee_code |-> "e0", is_active |-> FALSE] >>
    /\ sessions = <<>>
    /\ vision_items \in VisionTables
    /\ ledger = <<>>
    /\ recognition_logs = <<>>
    /\ clock = 0
    /\ response = Response("none", 0, None, <<>>, <<>>)
    /\ req = [r \in Reqs |-> IdleReq]

\* ---------------------------------------------------------------- actions
\* Time passes: later now() calls return a later value.
Tick ==
    /\ clock < MaxClock
    /\ clock' = clock + 1
    /\ UNCHANGED <<db, response, req>>

\* Variant: the lookup of an existing code is left out.
create_employee_unchecked(code) ==
    /\ Len(employees) < MaxEmployees
    /\ employees' = Append(employees,
           [id |-> Len(employees) + 1, employee_code |-> code, is_active |-> TRUE])
    /\ response' = Response("create_employee", 200, Len(employees) + 1, <<>>, <<>>)
    /\ UNCHANGED <<sessions, vision_items, ledger, recognition_logs, clock, req>>

\* POST /api/employee_create
create_employee(code) ==
    /\ IF EmployeeByCode(code).id # None
       THEN /\ response' = Response("create_employee", 409, None, <<>>, <<>>)
            /\ UNCHANGED employees
       ELSE /\ Len(employees) < MaxEmployees
            /\ employees' = Append(employees,
                   [id |-> Len(employees) + 1, employee_code |-> code, is_active |-> TRUE])
            /\ response' = Response("create_employee", 200, Len(employees) + 1, <<>>, <<>>)
    /\ UNCHANGED <<sessions, vision_items, ledger, recognition_logs, clock, req>>

\* POST /api/recognition_log.  Of a log row only employee_id is kept: the
\* other columns copy the payload or the clock and no endpoint reads them.
recognition_log(code) ==
    /\ Len(recognition_logs) < MaxLogs
    /\ LET employee_id == IF TruthyStr(code) THEN EmployeeByCode(code).id ELSE None
       IN recognition_logs' = Append(recognition_logs,
              [employee_id |-> employee_id])
    /\ response' = Response("recognition_log", 200, None, <<>>, <<>>)
    /\ UNCHANGED <<employees, sessions, vision_items, ledger, clock, req>>

\* Variant: an employee whose is_active flag is off is treated as not found.
session_start_active_only(code) ==
    /\ LET emp == EmployeeByCode(code)
       IN IF emp.id = None \/ ~emp.is_active
          THEN /\ response' = Response("session_start", 404, None, <<>>, <<>>)
               /\ UNCHANGED sessions
          ELSE /\ Len(sessions) < MaxSessions
               /\ sessions' = Append(sessions, OpenSession(Len(sessions) + 1, emp.id, clock))
               /\ response' = Response("session_start", 200, Len(sessions) + 1, <<>>, <<>>)
    /\ UNCHANGED <<employees, vision_items, ledger, recognition_logs, clock, req>>

\* POST /api/session_start
session_start(code) ==
    /\ LET emp == EmployeeByCode(code)
       IN IF emp.id = None
          THEN /\ response' = Response("session_start", 404, None, <<>>, <<>>)
               /\ UNCHANGED sessions
          ELSE /\ Len(sessions) < MaxSessions
               /\ sessions' = Append(sessions, OpenSession(Len(sessions) + 1, emp.id, clock))
               /\ response' = Response("session_start", 200, Len(sessions) + 1, <<>>, <<>>)
    /\ UNCHANGED <<employees, vision_items, ledger, recognition_logs, clock, req>>

\* Variant: the UPDATE also closes the other sessions of the same employee.
CommitCloseOfEmployee(loaded, payload, closed_at) ==
    LET session == ClosedSession(loaded, payload, closed_at)
        consumed == Consumed(payload)
    IN /\ Len(ledger) + Len(consumed) <= MaxLedger
       /\ sessions' = [i \in 1..Len(sessions) |->
                          IF i = loaded.id THEN Flushed(sessions[i], loaded, session)
                          ELSE IF sessions[i].employee_id = loaded.employee_id
                               THEN [sessions[i] EXCEPT !.status = "closed",
                                                        !.closed_at = closed_at]
                               ELSE sessions[i]]
       /\ ledger' = AppendEvents(NewEvents(session, consumed, clock))
       /\ response' = Response("session_close", 200, session.id, consumed, <<>>)

\* The writes of a session_close that loaded `loaded` and set closed_at to
\* `closed_at`: db.commit() makes the session UPDATE and the event INSERTs
\* visible in one transaction.
CommitClose(loaded, payload, closed_at) ==
    LET session == ClosedSession(loaded, payload, closed_at)
        consumed == Consumed(payload)
    IN /\ Len(ledger) + Len(consumed) <= MaxLedger
       /\ sessions' = [sessions EXCEPT ![loaded.id] = Flushed(@, loaded, session)]
       /\ ledger' = AppendEvents(NewEvents(session, consumed, clock))
       /\ response' = Response("session_close", 200, session.id, consumed, <<>>)

\* Variant: the session is looked up after the reconciliation, so a close of
\* an unknown id fails only once its events are written.
session_close_checks_late(payload) ==
    /\ IF payload.session_id > Len(sessions)
       THEN /\ Len(ledger) + Len(Consumed(payload)) <= MaxLedger
            /\ ledger' = AppendEvents(NewEvents([id |-> payload.session_id, employee_id |-> None],
                                                Consumed(payload), clock))
            /\ response' = Response("session_close", 404, None, <<>>, <<>>)
            /\ UNCHANGED sessions
       ELSE CommitClose(sessions[payload.session_id], payload, clock)
    /\ UNCHANGED <<employees, vision_items, recognition_logs, clock, req>>

\* POST /api/session_close, served with no other request in between.
session_close(payload) ==
    /\ IF payload.session_id > Len(sessions)
       THEN /\ response' = Response("session_close", 404, None, <<>>, <<>>)
            /\ UNCHANGED <<sessions, ledger>>
       ELSE CommitClose(sessions[payload.session_id], payload, clock)
    /\ UNCHANGED <<employees, vision_items, recognition_logs, clock, req>>

\* GET /api/sessions_list: the sessions joined to their employee, newest
\* first; the database orders rows of equal opened_at as it likes.
sessions_list(employee_code) ==
    /\ LET rows == {i \in 1..Len(sessions) :
                       \E e \in 1..Len(employees) :
                          /\ employees[e].id = sessions[i].employee_id
                          /\ TruthyStr(employee_code)
                                => employees[e].employee_code = employee_code}
           n == Cardinality(rows)
       IN \E result \in [1..n -> rows] :
             /\ \A i, j \in 1..n : i < j =>
                   /\ result[i] # result[j]
                   /\ sessions[result[i]].opened_at >= sessions[result[j]].opened_at
             /\ response' = Response("sessions_list", 200, None, <<>>, result)
    /\ UNCHANGED <<db, clock, req>>

Next ==
    \/ Tick
    \/ \E code \in Codes : create_employee(code)
    \/ \E code \in Codes \cup {"", NoCode} : recognition_log(code)
    \/ \E code \in Codes : session_start(code)
    \/ \E payload \in PlainClosePayloads : session_close(payload)
    \/ \E code \in Codes \cup {"", NoCode} : sessions_list(code)

Spec == Init /\ [][Next]_vars

\* ------------------------------------------------- reconciliation in detail
\* One session opened by employee 1, and any pair of snapshots.
InitReconcile ==
    /\ employees = << [id |-> 1, employee_code |-> "e0", is_active |-> FALSE] >>
    /\ sessions = << OpenSession(1, 1, 0) >>
    /\ vision_items \in AllVisionTables
    /\ ledger = <<>>
    /\ recognition_logs = <<>>
    /\ clock = 0
    /\ response = Response("session_start", 200, 1, <<>>, <<>>)
    /\ req = [r \in Reqs |-> IdleReq]

NextReconcile == \E payload \in ClosePayloads : session_close(payload)

SpecReconcile == InitReconcile /\ [][NextReconcile]_vars

\* ------------------------------------------------ session_close, in steps
\* Request r is received: the handler queries the session (404 if there is
\* none) and sets closed_at, the capture ids and the status on the object
\* it loaded.  Nothing is written yet (autoflush is off).
session_close_begin(r, payload) ==
    /\ req[r].pc = "idle"
    /\ IF payload.session_id > Len(sessions)
       THEN /\ response' = Response("session_close", 404, None, <<>>, <<>>)
            /\ req' = [req EXCEPT ![r].pc = "done", ![r].payload = payload,
                                  ![r].status = 404]
       ELSE /\ req' = [req EXCEPT ![r].pc = "loaded", ![r].payload = payload,
                                  ![r].session = sessions[payload.session_id],
                                  ![r].closed_at = clock]
            /\ UNCHANGED response
    /\ UNCHANGED <<db, clock>>

\* Request r reads the snapshots, queues its events and commits.
session_close_commit(r) ==
    /\ req[r].pc = "loaded"
    /\ CommitClose(req[r].session, req[r].payload, req[r].closed_at)
    /\ req' = [req EXCEPT ![r].pc = "done", ![r].status = 200,
                          ![r].consumed = Consumed(req[r].payload)]
    /\ UNCHANGED <<employees, vision_items, recognition_logs, clock>>

\* Variant: the session UPDATE is committed on its own before the request
\* fails.
session_close_abort_after_update(r) ==
    /\ req[r].pc = "loaded"
    /\ req' = [req EXCEPT ![r].pc = "done", ![r].status = 500]
    /\ response' = Response("session_close", 500, None, <<>>, <<>>)
    /\ sessions' = [sessions EXCEPT ![req[r].session.id] =
                       ClosedSession(@, req[r].payload, req[r].closed_at)]
    /\ UNCHANGED <<employees, vision_items, ledger, recognition_logs, clock>>

\* Request r fails before db.commit() returns (a database error): get_db
\* closes the database session, which discards what was not committed.
session_close_abort(r) ==
    /\ req[r].pc = "loaded"
    /\ req' = [req EXCEPT ![r].pc = "done", ![r].status = 500]
    /\ response' = Response("session_close", 500, None, <<>>, <<>>)
    /\ UNCHANGED <<db, clock>>

NextConc ==
    \/ Tick
    \/ \E code \in Codes : session_start(code)
    \/ \E r \in Reqs, payload \in PlainClosePayloads : session_close_begin(r, payload)
    \/ \E r \in Reqs : session_close_commit(r)
    \/ \E r \in Reqs : session_close_abort(r)

SpecConc == Init /\ [][NextConc]_vars

\* ================================================================ claims
\* The snapshot of capture c read as a label -> quantity map: label l is in
\* it when a row reports it, with the quantity of the last such row.
RowsOf(c, l) ==
    {i \in 1..Len(vision_items) :
        vision_items[i].capture_id = c /\ vision_items[i].label = l}

SnapshotHas(c, l) == RowsOf(c, l) # {}

SnapshotQty(c, l) ==
    vision_items[CHOOSE i \in RowsOf(c, l) : \A j \in RowsOf(c, l) : j <= i].quantity

SnapshotGet(c, l) == IF SnapshotHas(c, l) THEN SnapshotQty(c, l) ELSE 0

\* Positions of the events a step appends, and those among them for label l.
AppendedAt == (Len(ledger) + 1)..Len(ledger')

AppendedFor(l) == {i \in AppendedAt : ledger'[i].product_label = l}

\* A step that serves session_close(p) for a session that exists (the
\* recorded capture ids single out the payload).
Closes(p) ==
    /\ p.session_id <= Len(sessions)
    /\ sessions'[p.session_id].capture_before_id = p.capture_before_id
    /\ sessions'[p.session_id].capture_after_id = p.capture_after_id
    /\ session_close(p)

\* C1 (conservation): a session_close that reconciles before snapshot B and
\* after snapshot A appends, for every label l of B with B[l] > A.get(l, 0),
\* exactly one event for l, of quantity B[l] - A.get(l, 0), and appends no
\* event for a label l of B with A.get(l, 0) >= B[l].
C1_Conservation ==
    [][\A p \in ClosePayloads :
          (p.capture_before_id > 0 /\ p.capture_after_id > 0 /\ Closes(p)) =>
             \A l \in Labels :
                LET B == p.capture_before_id
                    A == p.capture_after_id
                IN SnapshotHas(B, l) =>
                      IF SnapshotQty(B, l) > SnapshotGet(A, l)
                      THEN /\ Cardinality(AppendedFor(l)) = 1
                           /\ \A i \in AppendedFor(l) :
                                 ledger'[i].quantity = SnapshotQty(B, l) - SnapshotGet(A, l)
                      ELSE AppendedFor(l) = {}]_vars

\* C1 witness: a close reconciled captures 1 and 2; one before label went
\* from 2 to -1 (an event of quantity 3) and another did not decrease.
C1_Witness ==
    /\ response.op = "session_close" /\ response.status = 200
    /\ sessions[1].capture_before_id = 1 /\ sessions[1].capture_after_id = 2
    /\ Len(ledger) = 1 /\ ledger[1].quantity = 3
    /\ \E l \in Labels : SnapshotHas(1, l) /\ SnapshotQty(1, l) <= SnapshotGet(2, l)

\* C2 (session state machine), as claimed: a status changes only from open
\* to closed, and a session_close of a session whose status is closed fails
\* and leaves the sessions and the ledger as they are.
C2_ClosedSessionRejectsClose ==
    [][/\ \A i \in 1..Len(sessions) :
             sessions'[i].status # sessions[i].status =>
                sessions[i].status = "open" /\ sessions'[i].status = "closed"
       /\ \A p \in PlainClosePayloads :
             (/\ p.session_id <= Len(sessions)
              /\ sessions[p.session_id].status = "closed"
              /\ session_close(p)) =>
                response'.status # 200 /\ sessions' = sessions /\ ledger' = ledger]_vars

\* C3, as claimed: the ledger holds at most one event per (session_id,
\* product_label) pair.
C3_OneEventPerSessionLabel ==
    \A i, j \in 1..Len(ledger) :
       (/\ ledger[i].session_id = ledger[j].session_id
        /\ ledger[i].product_label = ledger[j].product_label) => i = j

\* C4 (ledger append-only): every step keeps the events the ledger holds, in
\* place and unchanged; a step that serves a session_close appends exactly
\* the events that close emitted (its returned consumed list, for its
\* session), and any other step appends nothing.
C4_LedgerAppendOnly ==
    [][/\ Len(ledger') >= Len(ledger)
       /\ SubSeq(ledger', 1, Len(ledger)) = ledger
       /\ IF /\ response'.op = "session_close" /\ response'.status = 200
             /\ \E p \in PlainClosePayloads : Closes(p)
          THEN /\ Len(ledger') = Len(ledger) + Len(response'.consumed)
               /\ \A k \in 1..Len(response'.consumed) :
                     /\ ledger'[Len(ledger) + k].session_id = response'.id
                     /\ ledger'[Len(ledger) + k].product_label = response'.consumed[k].label
                     /\ ledger'[Len(ledger) + k].quantity = response'.consumed[k].quantity
          ELSE ledger' = ledger]_vars

\* C4 witness: the ledger holds the events of two closes of one session, the
\* earlier one still in place, and a recognition log was written.
C4_Witness ==
    /\ Len(ledger) = 2
    /\ ledger[1].session_id = ledger[2].session_id
    /\ ledger[1].created_at < ledger[2].created_at
    /\ recognition_logs # <<>>
    /\ Len(employees) = 2

\* C5, as claimed: every event of the ledger belongs to a session that
\* exists, is closed and has both capture ids recorded.
C5_EventsOwnedByClosedSession ==
    \A i \in 1..Len(ledger) :
       /\ ledger[i].session_id \in 1..Len(sessions)
       /\ sessions[ledger[i].session_id].status = "closed"
       /\ sessions[ledger[i].session_id].capture_before_id # None
       /\ sessions[ledger[i].session_id].capture_after_id # None

\* C6 (snapshot absence), as claimed: a session_close given both capture ids
\* succeeds; when the after id has no rows, consumed holds one entry per
\* before label, with the before quantity; when the before id has no rows,
\* consumed is empty and no event is appended.
C6_SnapshotAbsence ==
    [][\A p \in ClosePayloads :
          (p.capture_before_id # None /\ p.capture_after_id # None /\ Closes(p)) =>
             LET B == p.capture_before_id
                 A == p.capture_after_id
                 consumed == response'.consumed
             IN /\ response'.status = 200
                /\ ItemsOfCapture(A) = <<>> =>
                      /\ \A l \in Labels :
                            SnapshotHas(B, l) =>
                               \E i \in 1..Len(consumed) :
                                  /\ consumed[i].label = l
                                  /\ consumed[i].quantity = SnapshotQty(B, l)
                      /\ Len(consumed) = Cardinality({l \in Labels : SnapshotHas(B, l)})
                /\ ItemsOfCapture(B) = <<>> =>
                      consumed = <<>> /\ ledger' = ledger]_vars

\* C7 (no restock detection): no event a session_close appends and no entry
\* of the consumed list it returns has a label that the before snapshot
\* lacks, whatever the after snapshot holds.
C7_NoRestock ==
    [][\A p \in ClosePayloads :
          Closes(p) =>
             /\ \A i \in AppendedAt : SnapshotHas(p.capture_before_id, ledger'[i].product_label)
             /\ \A i \in 1..Len(response'.consumed) :
                   SnapshotHas(p.capture_before_id, response'.consumed[i].label)]_vars

\* C7 witness: a close reconciled captures 1 and 2 and appended an event,
\* while the after snapshot holds a positive quantity of a label that the
\* before snapshot lacks.
C7_Witness ==
    /\ response.op = "session_close" /\ response.status = 200
    /\ sessions[1].capture_before_id = 1 /\ sessions[1].capture_after_id = 2
    /\ Len(response.consumed) = 1 /\ Len(ledger) = 1
    /\ \E l \in Labels : ~SnapshotHas(1, l) /\ SnapshotHas(2, l) /\ SnapshotQty(2, l) > 0

\* C8 (session record): in every state closed_at is set exactly when the
\* status is closed and an open session has no capture id; and no step
\* moves a status from closed back to open.
C8_SessionRecord ==
    /\ [](\A i \in 1..Len(sessions) :
            /\ sessions[i].closed_at # None <=> sessions[i].status = "closed"
            /\ sessions[i].status = "open" =>
                  /\ sessions[i].capture_before_id = None
                  /\ sessions[i].capture_after_id = None)
    /\ [][\A i \in 1..Len(sessions) :
             sessions[i].status = "closed" => sessions'[i].status = "closed"]_vars

\* C8 witness: one session was closed with both capture ids and closed
\* again, another is still open.
C8_Witness ==
    /\ Len(sessions) = 2
    /\ sessions[1].status = "closed" /\ sessions[1].closed_at > sessions[1].opened_at
    /\ sessions[1].capture_before_id = 1 /\ sessions[1].capture_after_id = 2
    /\ Len(ledger) = 2 /\ ledger[2].session_id = 1 /\ ledger[1].session_id = 1
    /\ sessions[2].status = "open" /\ sessions[2].closed_at = None

\* A step in which request r returns.
Finishes(r) == req[r].pc = "loaded" /\ req'[r].pc = "done"

\* Events of the ledger that belong to session sid.
EventsOf(sid) == {i \in 1..Len(ledger) : ledger[i].session_id = sid}

\* C9 (atomic close): a request that returns either succeeds, and the same
\* step shows its session closed and appends all of its events to the
\* ledger, or fails, and the step changes no session and no event; no
\* other step changes a session record or the ledger, so nothing of a
\* request is visible before it returns.  After a failed request that no
\* successful request for the same session accompanies, the session is as
\* the request loaded it and, if that was open, has no event.
C9_AtomicClose ==
    /\ [][/\ \A r \in Reqs :
                Finishes(r) =>
                   LET sid == req[r].payload.session_id
                       consumed == req'[r].consumed
                   IN \/ /\ req'[r].status = 200
                         /\ sessions'[sid].status = "closed"
                         /\ sessions'[sid].closed_at # None
                         /\ SubSeq(ledger', 1, Len(ledger)) = ledger
                         /\ Len(ledger') = Len(ledger) + Len(consumed)
                         /\ \A k \in 1..Len(consumed) :
                               /\ ledger'[Len(ledger) + k].session_id = sid
                               /\ ledger'[Len(ledger) + k].product_label = consumed[k].label
                               /\ ledger'[Len(ledger) + k].quantity = consumed[k].quantity
                      \/ /\ req'[r].status = 500
                         /\ sessions' = sessions
                         /\ ledger' = ledger
          /\ (\A q \in Reqs : ~Finishes(q)) =>
                /\ ledger' = ledger
                /\ \A i \in 1..Len(sessions) : sessions'[i] = sessions[i]]_vars
    /\ [](\A r \in Reqs :
            (/\ req[r].status = 500
             /\ \A q \in Reqs \ {r} :
                   ~(/\ req[q].status = 200
                     /\ req[q].payload.session_id = req[r].payload.session_id)) =>
               /\ sessions[req[r].payload.session_id] = req[r].session
               /\ req[r].session.status = "open" => EventsOf(req[r].payload.session_id) = {})

\* C9 witness: one request committed a close with two events, another one,
\* for a second session and with both capture ids, failed and left that
\* session open.
C9_Witness ==
    \E r, q \in Reqs :
       /\ req[q].status = 200 /\ Len(req[q].consumed) = 2 /\ Len(ledger) = 2
       /\ req[r].status = 500
       /\ req[r].payload.capture_before_id = 1 /\ req[r].payload.capture_after_id = 2
       /\ req[r].payload.session_id # req[q].payload.session_id
       /\ sessions[req[r].payload.session_id].status = "open"
       /\ EventsOf(req[r].payload.session_id) = {}

\* C10, as claimed: of two requests for one session that both loaded it
\* while it was open, at most one appends consumption events.
C10_ClosedOnce ==
    \A r, q \in Reqs :
       (/\ r # q
        /\ req[r].payload.session_id = req[q].payload.session_id
        /\ req[r].session.status = "open" /\ req[q].session.status = "open"
        /\ req[r].status = 200 /\ req[q].status = 200) =>
          (req[r].consumed = <<>> \/ req[q].consumed = <<>>)

\* C11 (close of an unknown session): a session_close whose session id
\* matches no session answers 404 with an empty result, changes no session
\* record and appends no event; the other tables stay as they are too.
C11_CloseUnknownSession ==
    [][response'.op = "session_close" =>
          \A p \in PlainClosePayloads :
             (p.session_id > Len(sessions) /\ session_close(p)) =>
                /\ response'.status = 404
                /\ response'.consumed = <<>>
                /\ sessions' = sessions
                /\ ledger' = ledger
                /\ employees' = employees /\ vision_items' = vision_items]_vars

\* C11 witness: a close was answered 404 while the registry holds a closed
\* session and the ledger holds its event.
C11_Witness ==
    /\ response.op = "session_close" /\ response.status = 404
    /\ Len(sessions) = 1 /\ sessions[1].status = "closed"
    /\ sessions[1].capture_before_id = 1 /\ sessions[1].capture_after_id = 2
    /\ Len(ledger) >= 1 /\ ledger[1].session_id = 1

\* C12 (session_start): a session_start with a code that no employee has
\* answers 404 and creates no session; with the code of an employee, active
\* or not, it keeps the sessions there are and adds exactly one, owned by
\* that employee, with a fresh id, status open, opened_at set to the current
\* time, closed_at unset and no capture id, and it returns that id.
C12_SessionStart ==
    [][response'.op = "session_start" =>
          \A code \in Codes :
             session_start(code) =>
                IF \A e \in 1..Len(employees) : employees[e].employee_code # code
                THEN response'.status = 404 /\ sessions' = sessions
                ELSE \E e \in 1..Len(employees) :
                        /\ employees[e].employee_code = code
                        /\ response'.status = 200
                        /\ Len(sessions') = Len(sessions) + 1
                        /\ SubSeq(sessions', 1, Len(sessions)) = sessions
                        /\ LET s == sessions'[Len(sessions')]
                           IN /\ s.employee_id = employees[e].id
                              /\ s.status = "open"
                              /\ s.opened_at = clock /\ s.opened_at # None
                              /\ s.closed_at = None
                              /\ s.capture_before_id = None
                              /\ s.capture_after_id = None
                              /\ response'.id = s.id
                              /\ \A i \in 1..Len(sessions) : sessions[i].id # s.id]_vars

\* C12 witness: the inactive employee and the active one each opened a
\* session; the first was closed since, the second was just created.
C12_Witness ==
    /\ response.op = "session_start" /\ response.status = 200 /\ response.id = 2
    /\ Len(sessions) = 2 /\ Len(employees) = 2
    /\ sessions[1].employee_id = 1 /\ ~employees[1].is_active
    /\ sessions[2].employee_id = 2 /\ employees[2].is_active
    /\ sessions[1].status = "closed" /\ sessions[2].status = "open"

\* C13 (a capture id absent): a session_close of an existing session whose
\* payload lacks the before id, the after id or both succeeds and closes the
\* session (status closed, closed_at set to the current time, the capture
\* ids as the payload has them, the absent one unset), appends no event and
\* returns an empty consumed list.
C13_AbsentCapture ==
    [][response'.op = "session_close" =>
          \A p \in ClosePayloads :
             (/\ p.session_id <= Len(sessions)
              /\ (p.capture_before_id = None \/ p.capture_after_id = None)
              /\ session_close(p)) =>
                /\ response'.status = 200 /\ response'.id = p.session_id
                /\ sessions'[p.session_id].status = "closed"
                /\ sessions'[p.session_id].closed_at = clock
                /\ sessions'[p.session_id].closed_at # None
                /\ sessions'[p.session_id].capture_before_id = p.capture_before_id
                /\ sessions'[p.session_id].capture_after_id = p.capture_after_id
                /\ ledger' = ledger
                /\ response'.consumed = <<>>]_vars

\* C13 witness: a close that gave only the before id closed the session and
\* left the ledger empty, although the before snapshot holds a positive
\* quantity.
C13_Witness ==
    /\ response.op = "session_close" /\ response.status = 200
    /\ sessions[1].status = "closed" /\ sessions[1].closed_at # None
    /\ sessions[1].capture_before_id = 1 /\ sessions[1].capture_after_id = None
    /\ response.consumed = <<>> /\ ledger = <<>>
    /\ \E l \in Labels : SnapshotHas(1, l) /\ SnapshotQty(1, l) > 0

\* C14 (event attributes): in every state each event of the ledger has a
\* quantity greater than zero, the id of a session that exists and the
\* employee_id stored on that session; and the events a session_close
\* appends carry the id of the session being closed and that session's
\* employee_id, with a quantity greater than zero even when the snapshots
\* hold zero or negative quantities.
C14_EventAttribution ==
    /\ [](\A i \in 1..Len(ledger) :
            /\ ledger[i].quantity > 0
            /\ ledger[i].session_id \in 1..Len(sessions)
            /\ ledger[i].employee_id = sessions[ledger[i].session_id].employee_id)
    /\ [][response'.op = "session_close" =>
             \A p \in PlainClosePayloads :
                Closes(p) =>
                   \A i \in AppendedAt :
                      /\ ledger'[i].quantity > 0
                      /\ ledger'[i].session_id = p.session_id
                      /\ ledger'[i].employee_id = sessions[p.session_id].employee_id]_vars

\* C14 witness: employee 2 opened session 1, employee 1 opened session 2;
\* the close of session 1 reconciled a before quantity of zero with a
\* negative after quantity and appended an event of quantity 1 for session
\* 1, employee 2.
C14_Witness ==
    /\ Len(sessions) = 2
    /\ sessions[1].employee_id = 2 /\ sessions[2].employee_id = 1
    /\ sessions[1].capture_before_id = 1 /\ sessions[1].capture_after_id = 2
    /\ Len(ledger) = 2
    /\ ledger[1].session_id = 1 /\ ledger[1].employee_id = 2 /\ ledger[1].quantity = 1
    /\ SnapshotQty(1, ledger[1].product_label) = 0
    /\ SnapshotQty(2, ledger[1].product_label) < 0

\* C15 (unique employee_code): in every state no two employees have the
\* same employee_code; a create_employee with a code that an employee has
\* answers 409 and leaves the directory as it is; with a new code it keeps
\* the employees there are and adds exactly one, with that code, returning
\* its id; and no step of any operation changes the employee_code or the id
\* of an employee or removes one.
C15_UniqueEmployeeCode ==
    /\ [](\A i, j \in 1..Len(employees) :
            employees[i].employee_code = employees[j].employee_code => i = j)
    /\ [][/\ Len(employees') >= Len(employees)
          /\ \A i \in 1..Len(employees) :
                /\ employees'[i].employee_code = employees[i].employee_code
                /\ employees'[i].id = employees[i].id
          /\ (\A code \in Codes : ~create_employee(code)) => employees' = employees
          /\ \A code \in Codes :
                create_employee(code) =>
                   IF \E i \in 1..Len(employees) : employees[i].employee_code = code
                   THEN response'.status = 409 /\ employees' = employees
                   ELSE /\ response'.status = 200
                        /\ Len(employees') = Len(employees) + 1
                        /\ employees'[Len(employees')].employee_code = code
                        /\ response'.id = employees'[Len(employees')].id
                        /\ \A i \in 1..Len(employees) :
                              employees[i].id # response'.id]_vars

\* C15 witness: a second employee was created with a new code, sessions
\* were opened and one closed, and a create_employee with a code in use was
\* answered 409.
C15_Witness ==
    /\ response.op = "create_employee" /\ response.status = 409
    /\ Len(employees) = 2
    /\ employees[1].employee_code = "e0" /\ employees[2].employee_code = "e1"
    /\ Len(sessions) = 2 /\ sessions[1].status = "closed"

\* Positions of the sessions owned by the employee whose employee_code is code.
OwnedBy(code) ==
    {i \in 1..Len(sessions) :
        \E e \in 1..Len(employees) :
           /\ employees[e].employee_code = code
           /\ employees[e].id = sessions[i].employee_id}

\* C16, as claimed: sessions_list answers with the sessions ordered by
\* opened_at, latest first; given an employee_code it lists exactly the
\* sessions owned by the employee with that code, given none it lists every
\* session, each once; and it leaves the sessions, the employees and the
\* ledger as they are.
C16_SessionsList ==
    [][response'.op = "sessions_list" =>
          \A code \in Codes \cup {"", NoCode} :
             sessions_list(code) =>
                LET result == response'.sessions
                    wanted == IF code = NoCode THEN 1..Len(sessions) ELSE OwnedBy(code)
                IN /\ response'.status = 200
                   /\ Len(result) = Cardinality(wanted)
                   /\ {result[k] : k \in 1..Len(result)} = {sessions[i].id : i \in wanted}
                   /\ \A k, n \in 1..Len(result) :
                         k < n => sessions[result[k]].opened_at >= sessions[result[n]].opened_at
                   /\ sessions' = sessions /\ employees' = employees /\ ledger' = ledger]_vars

\* Entries of a consumed list for label l.
EntriesFor(consumed, l) == {k \in 1..Len(consumed) : consumed[k].label = l}

\* C17, as claimed: a session_close that supplies both capture ids, whatever
\* their values (the id 0 included), reconciles the two snapshots: for every
\* label l of the before snapshot B with B[l] > A.get(l, 0) it returns one
\* consumed entry and appends one event for l, of quantity
\* B[l] - A.get(l, 0), and for any other label it returns and appends none.
C17_SuppliedIdsReconcile ==
    [][response'.op = "session_close" =>
          \A p \in ClosePayloads :
             (p.capture_before_id # None /\ p.capture_after_id # None /\ Closes(p)) =>
                LET B == p.capture_before_id
                    A == p.capture_after_id
                    consumed == response'.consumed
                IN \A l \in Labels :
                      IF SnapshotHas(B, l) /\ SnapshotQty(B, l) > SnapshotGet(A, l)
                      THEN /\ Cardinality(EntriesFor(consumed, l)) = 1
                           /\ Cardinality(AppendedFor(l)) = 1
                           /\ \A k \in EntriesFor(consumed, l) :
                                 consumed[k].quantity = SnapshotQty(B, l) - SnapshotGet(A, l)
                           /\ \A i \in AppendedFor(l) :
                                 ledger'[i].quantity = SnapshotQty(B, l) - SnapshotGet(A, l)
                      ELSE EntriesFor(consumed, l) = {} /\ AppendedFor(l) = {}]_vars

\* Position of the first row of capture c that reports label l: the place of
\* l in the iteration order of the snapshot read as a dict.
FirstRow(c, l) == CHOOSE i \in RowsOf(c, l) : \A j \in RowsOf(c, l) : i <= j

\* C18 (result and ledger agree): a successful session_close returns the id
\* of the session it closed, and its consumed list and the events it
\* appends correspond one to one: as many events as entries, the k-th event
\* with the label and the quantity of the k-th entry, for that session; the
\* entries follow the iteration order of the before snapshot.
C18_ConsumedMatchesLedger ==
    [][response'.op = "session_close" =>
          \A p \in ClosePayloads :
             Closes(p) =>
                LET consumed == response'.consumed
                    B == p.capture_before_id
                IN /\ response'.status = 200
                   /\ response'.id = p.session_id
                   /\ response'.id = sessions'[p.session_id].id
                   /\ sessions'[p.session_id].status = "closed"
                   /\ Len(ledger') = Len(ledger) + Len(consumed)
                   /\ SubSeq(ledger', 1, Len(ledger)) = ledger
                   /\ \A k \in 1..Len(consumed) :
                         /\ ledger'[Len(ledger) + k].product_label = consumed[k].label
                         /\ ledger'[Len(ledger) + k].quantity = consumed[k].quantity
                         /\ ledger'[Len(ledger) + k].session_id = response'.id
                         /\ SnapshotHas(B, consumed[k].label)
                   /\ \A k, n \in 1..Len(consumed) :
                         k < n => FirstRow(B, consumed[k].label) < FirstRow(B, consumed[n].label)]_vars

\* C18 witness: a close returned two entries, soda before milk as the before
\* snapshot lists them, and the ledger holds the two events in that order.
C18_Witness ==
    /\ response.op = "session_close" /\ response.status = 200 /\ response.id = 1
    /\ Len(response.consumed) = 2 /\ Len(ledger) = 2
    /\ response.consumed[1].label = "soda" /\ response.consumed[2].label = "milk"
    /\ ledger[1].product_label = "soda" /\ ledger[2].product_label = "milk"
    /\ ledger[1].quantity = response.consumed[1].quantity
    /\ ledger[2].quantity = response.consumed[2].quantity
    /\ sessions[1].status = "closed"

\* The events of the ledger that belong to session sid, in ledger order.
LedgerOf(sid) == SelectSeq(ledger, LAMBDA e : e.session_id = sid)

\* C19 (frame of session_close): a step of a session_close for session s
\* changes no employee, no snapshot row, no recognition log, no session
\* other than s and no event the ledger holds; of the record of s it leaves
\* id, employee_id and opened_at alone; and every event it appends has
\* session_id s.  Closes of different sessions therefore commute: whatever
\* the order in which they commit, a session closed by one request only has
\* the record that request wrote (closed_at, capture ids, status closed)
\* and, in the ledger, exactly the events of that request's consumed list.
C19_CloseFrame ==
    /\ [][\A r \in Reqs :
             (req'[r] # req[r] /\ req'[r].payload.session_id \in 1..Len(sessions)) =>
                LET sid == req'[r].payload.session_id
                IN /\ employees' = employees
                   /\ vision_items' = vision_items
                   /\ recognition_logs' = recognition_logs
                   /\ Len(sessions') = Len(sessions)
                   /\ \A i \in 1..Len(sessions) : i # sid => sessions'[i] = sessions[i]
                   /\ sessions'[sid].id = sessions[sid].id
                   /\ sessions'[sid].employee_id = sessions[sid].employee_id
                   /\ sessions'[sid].opened_at = sessions[sid].opened_at
                   /\ Len(ledger') >= Len(ledger)
                   /\ SubSeq(ledger', 1, Len(ledger)) = ledger
                   /\ \A i \in AppendedAt : ledger'[i].session_id = sid]_vars
    /\ [](\A r \in Reqs :
            (/\ req[r].status = 200
             /\ \A q \in Reqs \ {r} :
                   ~(/\ req[q].status = 200
                     /\ req[q].payload.session_id = req[r].payload.session_id)) =>
               LET sid == req[r].payload.session_id
                   consumed == req[r].consumed
               IN /\ sessions[sid].status = "closed"
                  /\ sessions[sid].closed_at = req[r].closed_at
                  /\ sessions[sid].capture_before_id = req[r].payload.capture_before_id
                  /\ sessions[sid].capture_after_id = req[r].payload.capture_after_id
                  /\ Len(LedgerOf(sid)) = Len(consumed)
                  /\ \A k \in 1..Len(consumed) :
                        /\ LedgerOf(sid)[k].product_label = consumed[k].label
                        /\ LedgerOf(sid)[k].quantity = consumed[k].quantity)

\* C19 witness: two requests closed sessions 1 and 2 with both capture ids,
\* the one for session 1 received first and committed last, so the event of
\* session 2 precedes the event of session 1 in the ledger.
C19_Witness ==
    \E r, q \in Reqs :
       /\ req[r].status = 200 /\ req[r].payload.session_id = 1
       /\ req[q].status = 200 /\ req[q].payload.session_id = 2
       /\ req[r].closed_at < req[q].closed_at
       /\ Len(ledger) = 2
       /\ ledger[1].session_id = 2 /\ ledger[2].session_id = 1
       /\ sessions[1].status = "closed" /\ sessions[2].status = "closed"

====
